---- MODULE Spec2Model ----
(***************************************************************************)
(* Post page of the learning-hub forum (PostPage, app/school/[id]/posts/   *)
(* [postId]/page.tsx): the fetched post with its comments, the optimistic  *)
(* vote handler handleVote with its rollback, and the fetch of the post.   *)
(*                                                                         *)
(* React state is modelled as it behaves: a setPost(updater) call made in  *)
(* an event handler queues the updater; the queued updater is applied to   *)
(* the state by the next render, which runs after the synchronous part of  *)
(* the handler (up to its first await) and before any other event.  The    *)
(* updater function itself may be invoked eagerly inside the setPost call  *)
(* (when the component has no pending work) or only by the render; the     *)
(* model draws that choice nondeterministically.                           *)
(***************************************************************************)
EXTENDS Integers, Sequences, FiniteSets, TLC

VARIABLES user, post, loading, error, calls, pending, fetches, lastAlert,
          clicks, authChanges, resolved, solo

(* PostPage: comment form, delete dialog, navigation; the server's copy of *)
(* the post; count and label of the steps taken (history)                  *)
VARIABLES newComment, isSubmitting, submit, itemToDelete, deletes, navigated,
          server, steps, step

voteVars == <<user, post, loading, error, calls, pending, fetches, lastAlert,
              clicks, authChanges, resolved, solo>>

editVars == <<newComment, isSubmitting, submit, itemToDelete, deletes, navigated,
              server, steps, step>>

(* ClientSchoolAdminView: the composite school, its loading flag, the four  *)
(* parallel requests of the fetchSchool effect and the position of the     *)
(* effect's async function                                                 *)
VARIABLES school, adminLoading, requests, round

adminVars == <<school, adminLoading, requests, round>>

(* ClientSchoolAdminView, members tab: the session, the server's data, the  *)
(* selection, the member delete dialog, the invite dialog, the toast, the  *)
(* requests in flight                                                      *)
VARIABLES sessionUser, adminServer, selectedMembers, memberToDelete,
          isDeleteConfirmOpen, isInviteDialogOpen, toast, adminCalls,
          adminSteps, adminStep

memberVars == <<sessionUser, adminServer, selectedMembers, memberToDelete,
                isDeleteConfirmOpen, isInviteDialogOpen, toast, adminCalls,
                adminSteps, adminStep>>

(* HubDashboard: the user, the post list, the vote requests in flight *)
VARIABLES hubUser, hubPosts, hubCalls, hubTaps, hubResolved

hubVars == <<hubUser, hubPosts, hubCalls, hubTaps, hubResolved>>

vars == <<voteVars, editVars, adminVars, memberVars, hubVars>>

----------------------------------------------------------------------------
(* Bounds *)

MaxClicks == 2
MaxAuthChanges == 1

----------------------------------------------------------------------------
(* Values *)

Null == "null"
VoteTypes == {"up", "down"}
UserVotes == VoteTypes \cup {Null}

NoUser == "none"
UserId == "u1"

PostId == 1
CommentIds == <<11, 12>>

NoPost == [id |-> 0, votes |-> 0, user_vote |-> Null, comments |-> <<>>]

LoginPrompt == "Please log in to vote."
VoteFailedAlert == "There was an error submitting your vote. Please try again."
FetchFailedError == "Could not load the post. It may have been deleted or the link is incorrect."

(* Answers of the post endpoint: the post with its two comments.  The      *)
(* server decides the counts and the viewer's own votes: either the viewer *)
(* has voted on nothing, or has voted the post up and the first comment    *)
(* down.                                                                   *)
MkPost(pv, cv) ==
  [id |-> PostId, votes |-> 5, user_vote |-> pv,
   comments |-> << [id |-> CommentIds[1], votes |-> 0, user_vote |-> cv],
                   [id |-> CommentIds[2], votes |-> 2, user_vote |-> Null] >>]

ServerPosts == {MkPost(Null, Null), MkPost("up", "down")}

----------------------------------------------------------------------------
(* handleVote: the vote transition policy (updateItem) *)

(* variants of the policy with one branch changed *)
VoteChangeNewCountedAsSwitch(originalVote, newVote) ==
  IF originalVote = newVote
    THEN (IF newVote = "up" THEN -1 ELSE 1)
    ELSE (IF newVote = "up" THEN 2 ELSE -2)

VoteChangeSwitchCountedOnce(originalVote, newVote) ==
  IF originalVote = newVote
    THEN (IF newVote = "up" THEN -1 ELSE 1)
    ELSE (IF newVote = "up" THEN 1 ELSE -1)

VoteChangeUnvoteSignFlipped(originalVote, newVote) ==
  IF originalVote = newVote
    THEN (IF newVote = "up" THEN 1 ELSE -1)
    ELSE IF originalVote # Null
      THEN (IF newVote = "up" THEN 2 ELSE -2)
      ELSE (IF newVote = "up" THEN 1 ELSE -1)

VoteChange(originalVote, newVote) ==
  IF originalVote = newVote
    THEN (IF newVote = "up" THEN -1 ELSE 1)
    ELSE IF originalVote # Null
      THEN (IF newVote = "up" THEN 2 ELSE -2)
      ELSE (IF newVote = "up" THEN 1 ELSE -1)

(* variant: a tap on the selected arrow keeps it selected *)
NewVoteStateNoToggle(originalVote, newVote) == newVote

NewVoteState(originalVote, newVote) ==
  IF originalVote = newVote THEN Null ELSE newVote

updateItem(item, newVote) ==
  [item EXCEPT !.votes = item.votes + VoteChange(item.user_vote, newVote),
               !.user_vote = NewVoteState(item.user_vote, newVote)]

(* variant: the user's vote is restored, the count is not *)
revertItemKeepsCount(item, voteChange, originalVote) ==
  [item EXCEPT !.user_vote = originalVote]

(* variant: the user's vote is cleared instead of restored *)
revertItemToNoVote(item, voteChange, originalVote) ==
  [item EXCEPT !.votes = item.votes - voteChange,
               !.user_vote = Null]

(* variant: the count is restored, the user's vote is not *)
revertItemVotesOnly(item, voteChange, originalVote) ==
  [item EXCEPT !.votes = item.votes - voteChange]

revertItem(item, voteChange, originalVote) ==
  [item EXCEPT !.votes = item.votes - voteChange,
               !.user_vote = originalVote]

(* variant: the id test is missing *)
MapCommentsAll(comments, itemId, newVote) ==
  [i \in DOMAIN comments |-> updateItem(comments[i], newVote)]

(* comments.map(c => c.id === itemId ? f(c) : c) *)
MapComments(comments, itemId, newVote) ==
  [i \in DOMAIN comments |->
     IF comments[i].id = itemId THEN updateItem(comments[i], newVote)
                                ELSE comments[i]]

MapCommentsRevert(comments, itemId, voteChange, originalVote) ==
  [i \in DOMAIN comments |->
     IF comments[i].id = itemId
       THEN revertItem(comments[i], voteChange, originalVote)
       ELSE comments[i]]

(* the updater passed to setPost in step 1 *)
OptimisticUpdater(prevPost, itemId, isComment, newVote) ==
  IF prevPost = NoPost THEN NoPost
  ELSE IF ~isComment THEN updateItem(prevPost, newVote)
  ELSE [prevPost EXCEPT !.comments = MapComments(prevPost.comments, itemId, newVote)]

(* variant: the isComment branch is missing, the post is reverted *)
RevertUpdaterNoBranch(prevPost, itemId, isComment, voteChange, originalVote) ==
  IF prevPost = NoPost THEN NoPost
  ELSE revertItem(prevPost, voteChange, originalVote)

(* the updater passed to setPost in step 3 *)
RevertUpdater(prevPost, itemId, isComment, voteChange, originalVote) ==
  IF prevPost = NoPost THEN NoPost
  ELSE IF ~isComment THEN revertItem(prevPost, voteChange, originalVote)
  ELSE [prevPost EXCEPT !.comments =
          MapCommentsRevert(prevPost.comments, itemId, voteChange, originalVote)]

(* The items updateItem is called on by the optimistic updater, in order.  *)
Targets(prevPost, itemId, isComment) ==
  IF prevPost = NoPost THEN <<>>
  ELSE IF ~isComment THEN <<prevPost>>
  ELSE SelectSeq(prevPost.comments, LAMBDA c : c.id = itemId)

(* Values of the handler's local variables originalVote and voteChange     *)
(* once the optimistic updater has run on prevPost (they keep their        *)
(* initial null / 0 when updateItem was called on no item).                *)
CapturedOriginalVote(prevPost, itemId, isComment) ==
  LET t == Targets(prevPost, itemId, isComment)
  IN IF Len(t) = 0 THEN Null ELSE t[Len(t)].user_vote

CapturedVoteChange(prevPost, itemId, isComment, newVote) ==
  LET t == Targets(prevPost, itemId, isComment)
  IN IF Len(t) = 0 THEN 0 ELSE VoteChange(t[Len(t)].user_vote, newVote)

(* const finalVoteType = originalVote === newVote ? null : newVote *)
FinalVoteType(originalVote, newVote) ==
  IF originalVote = newVote THEN Null ELSE newVote

(* variant: the guard is missing *)
NotAuthenticatedNever(u) == FALSE

(* if (!user) { alert(...); return; } *)
NotAuthenticated(u) == u = NoUser

----------------------------------------------------------------------------
(* View helpers *)

(* the vote buttons are rendered under !loading && post *)
ButtonsShown == ~loading /\ post # NoPost

ItemIds(p) == {p.id} \cup {p.comments[i].id : i \in DOMAIN p.comments}

(* the (votes, user_vote) of the item with this id in p *)
ItemOf(p, itemId, isComment) ==
  IF ~isComment THEN [votes |-> p.votes, user_vote |-> p.user_vote]
  ELSE LET i == CHOOSE j \in DOMAIN p.comments : p.comments[j].id = itemId
       IN [votes |-> p.comments[i].votes, user_vote |-> p.comments[i].user_vote]

HasItem(p, itemId, isComment) ==
  /\ p # NoPost
  /\ IF ~isComment THEN p.id = itemId
     ELSE \E j \in DOMAIN p.comments : p.comments[j].id = itemId

SoloOf(p) ==
  [id \in ItemIds(p) |->
     IF id = p.id THEN [votes |-> p.votes, user_vote |-> p.user_vote]
     ELSE ItemOf(p, id, TRUE)]

CallOf(n) == CHOOSE c \in calls : c.n = n

----------------------------------------------------------------------------
(* Initial state: the component is mounted, the effect has called          *)
(* fetchPost once.                                                         *)

NoCall == [n |-> 0, status |-> "none"]

NoSchool == [id |-> "none"]

OrgId == "org1"

Requests == {"organization", "members", "cohorts", "courses"}

(* useState(null), useState(true); the effect has issued the four fetches *)
InitAdmin ==
  /\ school = NoSchool
  /\ adminLoading = TRUE
  /\ requests = [r \in Requests |-> "pending"]
  /\ round = "waiting"

NoMember == [id |-> 0, role |-> "none"]

NoSession == "none"

NoServer == [members |-> <<>>, cohorts |-> "none", courses |-> "none"]

(* the members tab before anything is loaded or clicked *)
InitMembersIdle ==
  /\ sessionUser = NoSession
  /\ adminServer = NoServer
  /\ selectedMembers = <<>>
  /\ memberToDelete = NoMember
  /\ isDeleteConfirmOpen = FALSE
  /\ isInviteDialogOpen = FALSE
  /\ toast = "none"
  /\ adminCalls = {}
  /\ adminSteps = 0
  /\ adminStep = "mount"

NoHubCall == [n |-> 0, status |-> "none"]

(* the hub dashboard before its posts are loaded *)
InitHubIdle ==
  /\ hubUser = NoUser
  /\ hubPosts = <<>>
  /\ hubCalls = {}
  /\ hubTaps = 0
  /\ hubResolved = NoHubCall

InitVote ==
  /\ user \in {NoUser, UserId}
  /\ post = NoPost
  /\ loading = TRUE
  /\ error = Null
  /\ calls = {}
  /\ pending = 0
  /\ fetches = {[n |-> 1, userId |-> user]}
  /\ lastAlert = Null
  /\ clicks = 0
  /\ authChanges = 0
  /\ resolved = NoCall
  /\ solo = SoloOf(NoPost)

NoItem == [id |-> 0, isComment |-> FALSE]
NoSubmit == [stage |-> "none", userId |-> NoUser]

InitEdit ==
  /\ newComment = ""
  /\ isSubmitting = FALSE
  /\ submit = NoSubmit
  /\ itemToDelete = NoItem
  /\ deletes = {}
  /\ navigated = FALSE
  /\ steps = 0
  /\ step = "mount"

Init ==
  /\ InitVote
  /\ InitEdit
  /\ InitAdmin
  /\ InitMembersIdle
  /\ InitHubIdle
  /\ server = MkPost(Null, Null)

----------------------------------------------------------------------------
(* Bookkeeping of the handleVote invocations.  calls holds one record per  *)
(* invocation whose request is in flight: the closure of the invocation    *)
(* (its arguments, its local variables originalVote and voteChange) and    *)
(* the body of the request it sent.  pre, opt and clean are history        *)
(* fields: the target item as it was at the click, as the optimistic       *)
(* update left it, and whether nothing but this invocation has written     *)
(* the item since the click.  resolved is the last invocation whose        *)
(* request was answered, with the outcome and the item as the response     *)
(* handler left it.  solo maps each item of the loaded post to the         *)
(* (votes, user_vote) it has when only the vote actions on that very item  *)
(* are run on it, each with the outcome it had; soloVote and soloChange    *)
(* are the originalVote and voteChange of the invocation in that run.      *)

SetCall(cs, c, d) == (cs \ {c}) \cup {d}

(* every other invocation in flight on the same item has been disturbed *)
Disturb(cs, itemId, isComment, except) ==
  { IF c.n # except /\ c.itemId = itemId /\ c.isComment = isComment
      THEN [c EXCEPT !.clean = FALSE] ELSE c : c \in cs }

DisturbAll(cs) == { [c EXCEPT !.clean = FALSE] : c \in cs }

Resolve(c, status, after) ==
  [n |-> c.n, status |-> status, itemId |-> c.itemId, isComment |-> c.isComment,
   newVote |-> c.newVote, pre |-> c.pre, opt |-> c.opt, clean |-> c.clean,
   after |-> after]

----------------------------------------------------------------------------
(* handleVote, synchronous part: guard, setPost(updater), fetch(POST).     *)
(* eager: whether React invokes the updater inside the setPost call.       *)

HandleVote(itemId, isComment, newVote, eager) ==
  /\ ButtonsShown
  /\ pending = 0
  /\ clicks < MaxClicks
  /\ HasItem(post, itemId, isComment)
  /\ clicks' = clicks + 1
  /\ IF NotAuthenticated(user)
       THEN /\ lastAlert' = LoginPrompt
            /\ UNCHANGED <<calls, pending>>
       ELSE LET ov == IF eager THEN CapturedOriginalVote(post, itemId, isComment)
                               ELSE Null
                vc == IF eager THEN CapturedVoteChange(post, itemId, isComment, newVote)
                               ELSE 0
                c == [n |-> clicks + 1, itemId |-> itemId, isComment |-> isComment,
                      newVote |-> newVote, originalVote |-> ov, voteChange |-> vc,
                      vote_type |-> FinalVoteType(ov, newVote), user_id |-> user,
                      pre |-> ItemOf(post, itemId, isComment),
                      opt |-> ItemOf(post, itemId, isComment), clean |-> TRUE,
                      soloVote |-> Null, soloChange |-> 0]
            IN /\ calls' = calls \cup {c}
               /\ pending' = c.n
               /\ UNCHANGED lastAlert
  /\ UNCHANGED <<user, post, loading, error, fetches, authChanges, resolved, solo>>

(* The render that follows the click: the queued optimistic updater is     *)
(* applied to the state; by now it has run, so the invocation's local      *)
(* variables hold what updateItem assigned.                                *)
Render ==
  /\ pending # 0
  /\ LET c == CallOf(pending)
         d == [c EXCEPT
                 !.originalVote = CapturedOriginalVote(post, c.itemId, c.isComment),
                 !.voteChange = CapturedVoteChange(post, c.itemId, c.isComment, c.newVote),
                 !.opt = ItemOf(post', c.itemId, c.isComment),
                 !.soloVote = IF c.itemId \in DOMAIN solo
                                THEN solo[c.itemId].user_vote ELSE Null,
                 !.soloChange = IF c.itemId \in DOMAIN solo
                                  THEN VoteChange(solo[c.itemId].user_vote, c.newVote)
                                  ELSE 0]
     IN /\ post' = OptimisticUpdater(post, c.itemId, c.isComment, c.newVote)
        /\ calls' = Disturb(SetCall(calls, c, d), c.itemId, c.isComment, c.n)
        /\ solo' = IF c.itemId \in DOMAIN solo
                     THEN [solo EXCEPT ![c.itemId] = updateItem(@, c.newVote)]
                     ELSE solo
  /\ pending' = 0
  /\ UNCHANGED <<user, loading, error, fetches, lastAlert, clicks, authChanges,
                 resolved>>

(* variant: the accepted vote is applied once more *)
OnVoteSuccessApplyAgain(prevPost, c) ==
  OptimisticUpdater(prevPost, c.itemId, c.isComment, c.newVote)

(* what the handler does to the post after a 2xx response: nothing *)
OnVoteSuccess(prevPost, c) == prevPost

(* the item of an answered invocation, if the post still has it *)
ItemAfter(p, c) ==
  IF HasItem(p, c.itemId, c.isComment) THEN ItemOf(p, c.itemId, c.isComment)
                                       ELSE [votes |-> 0, user_vote |-> Null]

(* the vote request is answered with a 2xx status *)
VoteOk(c) ==
  /\ pending = 0
  /\ c \in calls
  /\ post' = OnVoteSuccess(post, c)
  /\ calls' = calls \ {c}
  /\ resolved' = Resolve(c, "ok", ItemAfter(post', c))
  /\ UNCHANGED <<user, loading, error, pending, fetches, lastAlert, clicks,
                 authChanges, solo>>

(* the vote request fails (non-2xx status or network error): catch block *)
VoteFail(c) ==
  /\ pending = 0
  /\ c \in calls
  /\ lastAlert' = VoteFailedAlert
  /\ post' = RevertUpdater(post, c.itemId, c.isComment, c.voteChange, c.originalVote)
  /\ calls' = Disturb(calls \ {c}, c.itemId, c.isComment, c.n)
  /\ resolved' = Resolve(c, "failed", ItemAfter(post', c))
  /\ solo' = IF c.itemId \in DOMAIN solo
               THEN [solo EXCEPT ![c.itemId] = revertItem(@, c.soloChange, c.soloVote)]
               ELSE solo
  /\ UNCHANGED <<user, loading, error, pending, fetches, clicks, authChanges>>

----------------------------------------------------------------------------
(* fetchPost and the effect that calls it *)

(* what the post endpoint answers: without userId no user_vote is set *)
Responses(userId) ==
  IF userId = NoUser THEN {MkPost(Null, Null)} ELSE ServerPosts

(* variant: the response of a superseded fetch is dropped *)
FetchApplyLatestOnly(f, data) ==
  /\ pending = 0
  /\ f \in fetches
  /\ fetches' = fetches \ {f}
  /\ IF f.n = authChanges + 1
       THEN /\ post' = data
            /\ loading' = FALSE
            /\ calls' = DisturbAll(calls)
            /\ solo' = SoloOf(data)
       ELSE UNCHANGED <<post, loading, calls, solo>>
  /\ UNCHANGED <<user, error, pending, lastAlert, clicks, authChanges, resolved>>

(* fetchPost after a response that is ok: setPost(data), setLoading(false) *)
FetchApply(f, data) ==
  /\ pending = 0
  /\ f \in fetches
  /\ post' = data
  /\ loading' = FALSE
  /\ fetches' = fetches \ {f}
  /\ calls' = DisturbAll(calls)
  /\ solo' = SoloOf(data)
  /\ UNCHANGED <<user, error, pending, lastAlert, clicks, authChanges, resolved>>

FetchOk(f, data) ==
  /\ data \in Responses(f.userId)
  /\ FetchApply(f, data)

FetchFail(f) ==
  /\ pending = 0
  /\ f \in fetches
  /\ error' = FetchFailedError
  /\ loading' = FALSE
  /\ fetches' = fetches \ {f}
  /\ UNCHANGED <<user, post, calls, pending, lastAlert, clicks, authChanges,
                 resolved, solo>>

(* the user logs in or out: the effect keyed by [postId, user] runs        *)
(* fetchPost again                                                         *)
AuthChange ==
  /\ pending = 0
  /\ authChanges < MaxAuthChanges
  /\ authChanges' = authChanges + 1
  /\ user' = IF user = NoUser THEN UserId ELSE NoUser
  /\ loading' = TRUE
  /\ fetches' = fetches \cup {[n |-> authChanges + 2, userId |-> user']}
  /\ UNCHANGED <<post, error, calls, pending, lastAlert, clicks, resolved, solo>>

----------------------------------------------------------------------------

(* The vote handler and the fetch of the post alone: the comment form and  *)
(* the delete dialog are not used.                                         *)
Next ==
  \/ /\ \E id \in {PostId} \cup {CommentIds[i] : i \in DOMAIN CommentIds},
           isComment \in BOOLEAN, newVote \in VoteTypes, eager \in BOOLEAN :
          HandleVote(id, isComment, newVote, eager)
     /\ UNCHANGED <<editVars, adminVars, memberVars, hubVars>>
  \/ Render /\ UNCHANGED <<editVars, adminVars, memberVars, hubVars>>
  \/ (\E c \in calls : VoteOk(c)) /\ UNCHANGED <<editVars, adminVars, memberVars, hubVars>>
  \/ (\E c \in calls : VoteFail(c)) /\ UNCHANGED <<editVars, adminVars, memberVars, hubVars>>
  \/ (\E f \in fetches, data \in ServerPosts : FetchOk(f, data)) /\ UNCHANGED <<editVars, adminVars, memberVars, hubVars>>
  \/ (\E f \in fetches : FetchFail(f)) /\ UNCHANGED <<editVars, adminVars, memberVars, hubVars>>
  \/ AuthChange /\ UNCHANGED <<editVars, adminVars, memberVars, hubVars>>

Spec == Init /\ [][Next]_vars

----------------------------------------------------------------------------
(* The server's copy of the post, as the page's requests see it.  One      *)
(* user votes; user_vote in the server's copy is that user's vote.         *)

MaxPageSteps == 3

NewCommentId == 13

Weight(vote) == IF vote = "up" THEN 1 ELSE IF vote = "down" THEN -1 ELSE 0

(* an accepted vote request: up/down sets the user's vote, null deletes it *)
ServerSetVote(item, voteType) ==
  [item EXCEPT !.votes = item.votes - Weight(item.user_vote) + Weight(voteType),
               !.user_vote = voteType]

ServerVote(srv, itemId, isComment, voteType) ==
  IF ~isComment THEN ServerSetVote(srv, voteType)
  ELSE [srv EXCEPT !.comments =
          [i \in DOMAIN srv.comments |->
             IF srv.comments[i].id = itemId
               THEN ServerSetVote(srv.comments[i], voteType)
               ELSE srv.comments[i]]]

(* an accepted comment: a reply to the post with a fresh id *)
ServerAddComment(srv) ==
  IF \E i \in DOMAIN srv.comments : srv.comments[i].id = NewCommentId
    THEN srv
    ELSE [srv EXCEPT !.comments =
            Append(srv.comments, [id |-> NewCommentId, votes |-> 0, user_vote |-> Null])]

(* an accepted DELETE of a comment *)
ServerDelete(srv, d) ==
  IF d.isComment
    THEN [srv EXCEPT !.comments = SelectSeq(srv.comments, LAMBDA c : c.id # d.id)]
    ELSE srv

(* the answer of the post endpoint: user_vote only for a given userId *)
ServerView(srv, userId) ==
  IF userId # NoUser THEN srv
  ELSE [srv EXCEPT !.user_vote = Null,
                   !.comments = [i \in DOMAIN srv.comments |->
                                   [srv.comments[i] EXCEPT !.user_vote = Null]]]

----------------------------------------------------------------------------
(* handleDelete and the confirmation dialog *)

DeleteFailedAlert == "Failed to delete. Please try again."
CommentFailedAlert == "Failed to post your comment. Please try again."

Mounted == ~navigated /\ pending = 0

(* the page below the spinner is rendered: dialog, form, buttons *)
PageShown == Mounted /\ ~loading

(* setItemToDelete({ id, isComment }) by a trash button *)
OpenDeleteDialog(id, isComment) ==
  /\ PageShown
  /\ HasItem(post, id, isComment)
  /\ itemToDelete' = [id |-> id, isComment |-> isComment]
  /\ UNCHANGED <<newComment, isSubmitting, submit, deletes, navigated, server>>
  /\ UNCHANGED voteVars

(* variant: cancelling sends the request all the same *)
CancelDeleteSendsRequest ==
  /\ PageShown
  /\ itemToDelete # NoItem
  /\ itemToDelete' = NoItem
  /\ deletes' = deletes \cup {itemToDelete}
  /\ UNCHANGED <<newComment, isSubmitting, submit, navigated, server>>
  /\ UNCHANGED voteVars

(* onCancel *)
CancelDelete ==
  /\ PageShown
  /\ itemToDelete # NoItem
  /\ itemToDelete' = NoItem
  /\ UNCHANGED <<newComment, isSubmitting, submit, deletes, navigated, server>>
  /\ UNCHANGED voteVars

(* onConfirm: handleDelete up to its await; the DELETE is issued *)
ConfirmDelete ==
  /\ PageShown
  /\ itemToDelete # NoItem
  /\ deletes' = deletes \cup {itemToDelete}
  /\ UNCHANGED <<newComment, isSubmitting, submit, itemToDelete, navigated, server>>
  /\ UNCHANGED voteVars

(* variant: the remaining comments are rebuilt without the user's votes *)
FilterCommentsDropVotes(prev, id) ==
  IF prev = NoPost THEN NoPost
  ELSE [prev EXCEPT !.comments =
          [i \in DOMAIN SelectSeq(prev.comments, LAMBDA c : c.id # id) |->
             [SelectSeq(prev.comments, LAMBDA c : c.id # id)[i]
                EXCEPT !.user_vote = Null]]]

(* prev.comments.filter(c => c.id !== itemToDelete.id) *)
FilterComments(prev, id) ==
  IF prev = NoPost THEN NoPost
  ELSE [prev EXCEPT !.comments = SelectSeq(prev.comments, LAMBDA c : c.id # id)]

(* variant: response.ok is tested, a non-2xx status throws *)
AfterDeleteResponseChecked(prev, d, ok) ==
  IF ok /\ d.isComment THEN FilterComments(prev, d.id) ELSE prev

(* the post after fetch(DELETE) has resolved; response.ok is not read *)
AfterDeleteResponse(prev, d, ok) ==
  IF d.isComment THEN FilterComments(prev, d.id) ELSE prev

(* fetch(DELETE) resolves with a response, 2xx (ok) or not *)
DeleteResponds(d, ok) ==
  /\ Mounted
  /\ d \in deletes
  /\ deletes' = deletes \ {d}
  /\ server' = IF ok THEN ServerDelete(server, d) ELSE server
  /\ post' = AfterDeleteResponse(post, d, ok)
  /\ navigated' = ~d.isComment
  /\ itemToDelete' = NoItem
  /\ UNCHANGED calls
  /\ solo' = IF post' = NoPost THEN solo ELSE [id \in ItemIds(post') |-> solo[id]]
  /\ UNCHANGED <<newComment, isSubmitting, submit>>
  /\ UNCHANGED <<user, loading, error, pending, fetches, lastAlert, clicks,
                 authChanges, resolved>>

(* fetch(DELETE) rejects (network error): catch, finally *)
DeleteRejects(d) ==
  /\ Mounted
  /\ d \in deletes
  /\ deletes' = deletes \ {d}
  /\ lastAlert' = DeleteFailedAlert
  /\ itemToDelete' = NoItem
  /\ UNCHANGED <<newComment, isSubmitting, submit, navigated, server>>
  /\ UNCHANGED <<user, post, loading, error, calls, pending, fetches, clicks,
                 authChanges, resolved, solo>>

----------------------------------------------------------------------------
(* handleAddComment *)

(* the textarea's onChange *)
TypeComment ==
  /\ Mounted /\ ButtonsShown
  /\ newComment = ""
  /\ newComment' = "text"
  /\ UNCHANGED <<isSubmitting, submit, itemToDelete, deletes, navigated, server>>
  /\ UNCHANGED voteVars

(* the submit button (disabled under isSubmitting, empty text, no user),   *)
(* handleAddComment up to its await: the POST is issued.  The handler      *)
(* keeps the user of the render it was created in.                         *)
SubmitComment ==
  /\ Mounted /\ ButtonsShown
  /\ ~isSubmitting /\ newComment # "" /\ user # NoUser
  /\ isSubmitting' = TRUE
  /\ submit' = [stage |-> "post", userId |-> user]
  /\ UNCHANGED <<newComment, itemToDelete, deletes, navigated, server>>
  /\ UNCHANGED voteVars

(* variant: the new comment is merged into the post at once *)
AfterCommentAcceptedInsert(prev) ==
  IF prev = NoPost THEN NoPost
  ELSE [prev EXCEPT !.comments =
          Append(prev.comments, [id |-> NewCommentId, votes |-> 0, user_vote |-> Null])]

(* what handleAddComment does to the post when the POST is answered 2xx:   *)
(* nothing, the post is re-fetched                                         *)
AfterCommentAccepted(prev) == prev

(* the POST is answered 2xx: await fetchPost() starts the re-fetch *)
CommentPostOk ==
  /\ Mounted
  /\ submit.stage = "post"
  /\ post' = AfterCommentAccepted(post)
  /\ server' = ServerAddComment(server)
  /\ loading' = TRUE
  /\ submit' = [submit EXCEPT !.stage = "refetch"]
  /\ UNCHANGED <<newComment, isSubmitting, itemToDelete, deletes, navigated>>
  /\ UNCHANGED <<user, error, calls, pending, fetches, lastAlert, clicks,
                 authChanges, resolved, solo>>

(* the POST fails (non-2xx status or network error): catch, finally *)
CommentPostFail ==
  /\ Mounted
  /\ submit.stage = "post"
  /\ lastAlert' = CommentFailedAlert
  /\ isSubmitting' = FALSE
  /\ submit' = NoSubmit
  /\ UNCHANGED <<newComment, itemToDelete, deletes, navigated, server>>
  /\ UNCHANGED <<user, post, loading, error, calls, pending, fetches, clicks,
                 authChanges, resolved, solo>>

(* the re-fetch is answered 2xx: setPost(data), setLoading(false), then    *)
(* setNewComment(""), setIsSubmitting(false)                               *)
CommentRefetchOk ==
  /\ Mounted
  /\ submit.stage = "refetch"
  /\ post' = ServerView(server, submit.userId)
  /\ loading' = FALSE
  /\ calls' = DisturbAll(calls)
  /\ solo' = SoloOf(post')
  /\ newComment' = ""
  /\ isSubmitting' = FALSE
  /\ submit' = NoSubmit
  /\ UNCHANGED <<itemToDelete, deletes, navigated, server>>
  /\ UNCHANGED <<user, error, pending, fetches, lastAlert, clicks, authChanges,
                 resolved>>

(* the re-fetch fails: fetchPost catches, handleAddComment goes on *)
CommentRefetchFail ==
  /\ Mounted
  /\ submit.stage = "refetch"
  /\ error' = FetchFailedError
  /\ loading' = FALSE
  /\ newComment' = ""
  /\ isSubmitting' = FALSE
  /\ submit' = NoSubmit
  /\ UNCHANGED <<itemToDelete, deletes, navigated, server>>
  /\ UNCHANGED <<user, post, calls, pending, fetches, lastAlert, clicks,
                 authChanges, resolved, solo>>

----------------------------------------------------------------------------
(* The whole page against a server that holds the post: every step is      *)
(* labelled, user actions are counted.                                     *)

Buttons == {PostId} \cup {CommentIds[i] : i \in DOMAIN CommentIds} \cup {NewCommentId}

UserStep(label) ==
  /\ steps < MaxPageSteps /\ steps' = steps + 1 /\ step' = label
  /\ UNCHANGED <<adminVars, memberVars, hubVars>>

Labelled(label) ==
  /\ steps' = steps /\ step' = label
  /\ UNCHANGED <<adminVars, memberVars, hubVars>>

EditRest == <<newComment, isSubmitting, submit, itemToDelete, deletes, navigated>>

PageVote ==
  /\ Mounted
  /\ \E id \in Buttons, isComment \in BOOLEAN, newVote \in VoteTypes, eager \in BOOLEAN :
       HandleVote(id, isComment, newVote, eager)
  /\ UserStep("vote")
  /\ UNCHANGED <<EditRest, server>>

PageRender ==
  /\ ~navigated
  /\ Render
  /\ Labelled("render")
  /\ UNCHANGED <<EditRest, server>>

PageVoteOk ==
  /\ Mounted
  /\ \E c \in calls :
       /\ VoteOk(c)
       /\ server' = ServerVote(server, c.itemId, c.isComment, c.vote_type)
  /\ Labelled("vote:ok")
  /\ UNCHANGED EditRest

PageVoteFail ==
  /\ Mounted
  /\ \E c \in calls : VoteFail(c)
  /\ Labelled("vote:fail")
  /\ UNCHANGED <<EditRest, server>>

PageFetchOk ==
  /\ Mounted
  /\ \E f \in fetches : FetchApply(f, ServerView(server, f.userId))
  /\ Labelled("fetch:ok")
  /\ UNCHANGED <<EditRest, server>>

PageFetchFail ==
  /\ Mounted
  /\ \E f \in fetches : FetchFail(f)
  /\ Labelled("fetch:fail")
  /\ UNCHANGED <<EditRest, server>>

PageAuthChange ==
  /\ Mounted
  /\ AuthChange
  /\ UserStep("auth")
  /\ UNCHANGED <<EditRest, server>>

PageOpenDeleteDialog ==
  /\ \E id \in Buttons, isComment \in BOOLEAN : OpenDeleteDialog(id, isComment)
  /\ UserStep("delete:open")

PageCancelDelete == CancelDelete /\ UserStep("delete:cancel")

PageConfirmDelete == ConfirmDelete /\ UserStep("delete:confirm")

PageDeleteOk == (\E d \in deletes : DeleteResponds(d, TRUE)) /\ Labelled("delete:ok")

PageDeleteStatus == (\E d \in deletes : DeleteResponds(d, FALSE)) /\ Labelled("delete:status")

PageDeleteRejects == (\E d \in deletes : DeleteRejects(d)) /\ Labelled("delete:reject")

PageTypeComment == TypeComment /\ UserStep("comment:type")

PageSubmitComment == SubmitComment /\ UserStep("comment:submit")

PageCommentPostOk == CommentPostOk /\ Labelled("comment:ok")

PageCommentPostFail == CommentPostFail /\ Labelled("comment:fail")

PageCommentRefetchOk == CommentRefetchOk /\ Labelled("refetch:ok")

PageCommentRefetchFail == CommentRefetchFail /\ Labelled("refetch:fail")

InitPage ==
  /\ InitVote
  /\ InitEdit
  /\ InitAdmin
  /\ InitMembersIdle
  /\ InitHubIdle
  /\ server \in ServerPosts

NextPage ==
  \/ PageVote
  \/ PageRender
  \/ PageVoteOk
  \/ PageVoteFail
  \/ PageFetchOk
  \/ PageFetchFail
  \/ PageAuthChange
  \/ PageOpenDeleteDialog
  \/ PageCancelDelete
  \/ PageConfirmDelete
  \/ PageDeleteOk
  \/ PageDeleteStatus
  \/ PageDeleteRejects
  \/ PageTypeComment
  \/ PageSubmitComment
  \/ PageCommentPostOk
  \/ PageCommentPostFail
  \/ PageCommentRefetchOk
  \/ PageCommentRefetchFail

SpecPage == InitPage /\ [][NextPage]_vars

----------------------------------------------------------------------------
(* Properties of handleVote *)

(* the invocation's optimistic update has been rendered *)
Rendered(c) == c.n # pending

Item(v, o) == [votes |-> v, user_vote |-> o]

(* C1 Rollback exactness: when the request of a vote action fails and      *)
(* nothing else has written the item since the click, the failure handler  *)
(* leaves the item's (votes, user_vote) equal to the pre-click values.     *)
RollbackExact ==
  (resolved.status = "failed" /\ resolved.clean) => resolved.after = resolved.pre

RollbackExactWitness ==
  /\ resolved.status = "failed"
  /\ resolved.clean
  /\ resolved.opt # resolved.pre
  /\ resolved.after = resolved.pre
  /\ resolved.pre.user_vote = "down"

(* C2 New-vote arithmetic: from (v, absent) "up" gives (v+1, up) and       *)
(* "down" gives (v-1, down), in the render that follows the click, while   *)
(* the request is still unanswered.                                        *)
NewVoteArithmetic ==
  \A c \in calls :
    (Rendered(c) /\ c.pre.user_vote = Null) =>
      /\ c.newVote = "up" => c.opt = Item(c.pre.votes + 1, "up")
      /\ c.newVote = "down" => c.opt = Item(c.pre.votes - 1, "down")

NewVoteWitness ==
  \E c \in calls :
    /\ Rendered(c) /\ c.clean
    /\ c.pre.user_vote = Null /\ c.newVote = "down"
    /\ ItemOf(post, c.itemId, c.isComment) = Item(c.pre.votes - 1, "down")

(* C3 Switch arithmetic: from (v, down) "up" gives (v+2, up); from         *)
(* (v, up) "down" gives (v-2, down).                                       *)
SwitchArithmetic ==
  \A c \in calls :
    Rendered(c) =>
      /\ (c.pre.user_vote = "down" /\ c.newVote = "up")
           => c.opt = Item(c.pre.votes + 2, "up")
      /\ (c.pre.user_vote = "up" /\ c.newVote = "down")
           => c.opt = Item(c.pre.votes - 2, "down")

SwitchWitness ==
  \E c \in calls :
    /\ Rendered(c) /\ c.clean
    /\ c.pre.user_vote = "up" /\ c.newVote = "down"
    /\ ItemOf(post, c.itemId, c.isComment) = Item(c.pre.votes - 2, "down")

(* C4 Un-vote symmetry: from (v, up) "up" gives (v-1, absent); from        *)
(* (v, down) "down" gives (v+1, absent).                                   *)
UnvoteSymmetry ==
  \A c \in calls :
    Rendered(c) =>
      /\ (c.pre.user_vote = "up" /\ c.newVote = "up")
           => c.opt = Item(c.pre.votes - 1, Null)
      /\ (c.pre.user_vote = "down" /\ c.newVote = "down")
           => c.opt = Item(c.pre.votes + 1, Null)

UnvoteWitness ==
  \E c \in calls :
    /\ Rendered(c) /\ c.clean
    /\ c.pre.user_vote = "down" /\ c.newVote = "down"
    /\ ItemOf(post, c.itemId, c.isComment) = Item(c.pre.votes + 1, Null)

(* C5 Vote request payload: the vote_type of every request sent is null    *)
(* exactly when the item's user_vote before the click equals the tapped    *)
(* arrow, and is the tapped arrow otherwise.                               *)
PayloadNullIffUnvote ==
  \A c \in calls :
    c.vote_type = (IF c.pre.user_vote = c.newVote THEN Null ELSE c.newVote)

(* C6 Unauthenticated guard: a vote action taken with no user changes      *)
(* nothing of the post state, sends no request, and prompts to log in.     *)
UnauthenticatedGuard ==
  [][(clicks' # clicks /\ user = NoUser) =>
       /\ post' = post
       /\ calls' = calls
       /\ pending' = pending
       /\ fetches' = fetches
       /\ loading' = loading
       /\ error' = error
       /\ lastAlert' = LoginPrompt]_vars

UnauthenticatedWitness ==
  /\ user = NoUser
  /\ clicks > 0
  /\ lastAlert = LoginPrompt
  /\ calls = {}
  /\ post # NoPost

(* steps of one invocation, and what a vote on a comment may change *)
IsRenderOf(c) == pending = c.n /\ pending' = 0

IsFailureOf(c) == resolved'.n = c.n /\ resolved'.status = "failed"

CommentFrame(c) ==
  /\ post'.id = post.id
  /\ post'.votes = post.votes
  /\ post'.user_vote = post.user_vote
  /\ Len(post'.comments) = Len(post.comments)
  /\ \A i \in DOMAIN post.comments :
       /\ post'.comments[i].id = post.comments[i].id
       /\ post.comments[i].id # c.itemId => post'.comments[i] = post.comments[i]
       /\ post.comments[i].id = c.itemId => post'.comments[i] # post.comments[i]

(* C7 Comment isolation: the optimistic update and the rollback of a vote  *)
(* on a comment leave the post's votes and user_vote and every other       *)
(* comment unchanged; the comment sequence keeps its length and order and  *)
(* only the element with the comment's id is replaced.                     *)
CommentIsolation ==
  [][\A c \in calls :
       (c.isComment /\ (IsRenderOf(c) \/ IsFailureOf(c))) => CommentFrame(c)]_vars

CommentIsolationWitness ==
  /\ resolved.status = "failed"
  /\ resolved.isComment
  /\ resolved.itemId = CommentIds[1]
  /\ resolved.after = resolved.pre
  /\ post.user_vote = "up"
  /\ Len(post.comments) = 2
  /\ post.comments[2] = MkPost(Null, Null).comments[2]

(* C8 Ordering within one vote action: whenever a vote request has been    *)
(* sent (and nothing else has written the item since), the item in the     *)
(* post state already carries the new vote.                                *)
OptimisticBeforeRequest ==
  \A c \in calls :
    c.clean => ItemOf(post, c.itemId, c.isComment) =
                 Item(c.pre.votes + VoteChange(c.pre.user_vote, c.newVote),
                      NewVoteState(c.pre.user_vote, c.newVote))

(* C9 On a 2xx response the handler changes nothing of the post state.     *)
SuccessChangesNothing ==
  [][\A c \in calls :
       (resolved'.n = c.n /\ resolved'.status = "ok") =>
          /\ post' = post
          /\ loading' = loading
          /\ error' = error
          /\ lastAlert' = lastAlert]_vars

SuccessWitness ==
  /\ resolved.status = "ok"
  /\ resolved.clean
  /\ resolved.opt # resolved.pre
  /\ resolved.after = resolved.opt

(* C10 Independence of votes on different items: whatever the interleaving *)
(* of clicks, successes and failures, every item of the post has the       *)
(* (votes, user_vote) it gets when only its own vote actions are run on    *)
(* it, each with the same outcome.                                         *)
ItemsIndependent == post # NoPost => SoloOf(post) = solo

ItemsIndependentWitness ==
  /\ resolved.status = "failed"
  /\ \E c \in calls :
       /\ Rendered(c)
       /\ c.itemId # resolved.itemId
       /\ c.n < resolved.n
       /\ c.isComment /\ resolved.isComment
  /\ SoloOf(post) = solo

----------------------------------------------------------------------------
(* Races and the view's tri-state *)

SameItem(c1, c2) == c1.itemId = c2.itemId /\ c1.isComment = c2.isComment

(* the item as a vote with this arrow alone would leave it *)
VotedAlone(pre, newVote) ==
  Item(pre.votes + VoteChange(pre.user_vote, newVote),
       NewVoteState(pre.user_vote, newVote))

(* the item after the first vote's rollback has hit the second vote's      *)
(* optimistic state                                                        *)
RacedRollback(pre, opt, secondVote) ==
  Item(pre.votes + VoteChange(opt.user_vote, secondVote), pre.user_vote)

(* C11 Same-item race: a second vote on an item is accepted and applied    *)
(* while the first vote's request is in flight; when the first request     *)
(* then fails, its rollback leaves the item with the second vote's delta   *)
(* and the first vote's original user_vote, which is neither the pre-click *)
(* state nor the state the second vote alone gives.                        *)
SameItemRace ==
  [][\A c1, c2 \in calls :
       (/\ SameItem(c1, c2) /\ c1.n < c2.n
        /\ Rendered(c2) /\ c2.clean /\ c2.pre = c1.opt
        /\ IsFailureOf(c1))
       => LET after == ItemOf(post', c1.itemId, c1.isComment)
          IN /\ after = RacedRollback(c1.pre, c1.opt, c2.newVote)
             /\ after # c1.pre
             /\ after # VotedAlone(c1.pre, c2.newVote)]_vars

SameItemRaceWitness ==
  /\ resolved.status = "failed"
  /\ ~resolved.clean
  /\ \E c2 \in calls :
       /\ SameItem(resolved, c2) /\ resolved.n < c2.n
       /\ c2.pre = resolved.opt
       /\ resolved.after = RacedRollback(resolved.pre, resolved.opt, c2.newVote)
       /\ resolved.after # resolved.pre
       /\ resolved.after # VotedAlone(resolved.pre, c2.newVote)
       /\ ItemOf(post, c2.itemId, c2.isComment) = resolved.after

(* C16 Tri-state of the post view model: an error is never reported        *)
(* together with loading = true, nor together with a fetched post.         *)
TriState == error # Null => (~loading /\ post = NoPost)

----------------------------------------------------------------------------
(* Properties of the whole page *)

(* no request of the page is in flight *)
Quiet ==
  /\ calls = {} /\ pending = 0 /\ fetches = {} /\ deletes = {}
  /\ submit.stage = "none"

CommentIdsOf(p) == {p.comments[i].id : i \in DOMAIN p.comments}

(* C12 Divergence from server truth is only transient: with one voting     *)
(* user, logged in throughout, whenever no request of the page is in       *)
(* flight the (votes, user_vote) of the post and of every comment the      *)
(* client holds equal the server's.                                        *)
ClientMatchesServer ==
  (Quiet /\ ~navigated /\ post # NoPost /\ user = UserId /\ authChanges = 0) =>
    /\ ItemIds(post) \subseteq ItemIds(server)
    /\ \A id \in ItemIds(post) : SoloOf(post)[id] = SoloOf(server)[id]

(* C13 Post/comment deletion: a successful DELETE of a comment removes     *)
(* exactly that comment, a successful DELETE of the post navigates back,   *)
(* and a failed DELETE (non-2xx status or network error) leaves the        *)
(* comments unchanged and does not navigate.                               *)
DeleteContract ==
  [][\A d \in deletes :
       deletes' = deletes \ {d} =>
         /\ (step' = "delete:ok" /\ d.isComment) =>
              /\ post'.comments = SelectSeq(post.comments, LAMBDA c : c.id # d.id)
              /\ ~navigated'
         /\ (step' = "delete:ok" /\ ~d.isComment) => navigated'
         /\ step' \in {"delete:status", "delete:reject"} =>
              /\ post' = post
              /\ ~navigated']_vars

(* C14 Comment creation is re-fetch based: when the POST succeeds the      *)
(* handler inserts nothing and starts a re-fetch of the post; a comment    *)
(* appears in the list only when a fetched response replaces the post;     *)
(* when the POST fails no re-fetch is issued and the post is unchanged.    *)
CommentByRefetch ==
  [][/\ step' = "comment:ok" =>
          /\ post' = post
          /\ submit.stage = "post" /\ submit'.stage = "refetch"
          /\ loading'
     /\ step' = "comment:fail" =>
          /\ post' = post
          /\ submit'.stage = "none"
          /\ fetches' = fetches
          /\ loading' = loading
     /\ step' = "refetch:ok" => post' = ServerView(server, submit.userId)
     /\ ~(CommentIdsOf(post') \subseteq CommentIdsOf(post)) =>
          step' \in {"refetch:ok", "fetch:ok"}]_vars

CommentByRefetchWitness ==
  /\ step = "refetch:ok"
  /\ NewCommentId \in CommentIdsOf(post)
  /\ submit.stage = "none"

(* C15 Failure surfacing without retry: every failed fetch, vote, comment  *)
(* submission or delete (network error or non-2xx status) leaves a visible *)
(* message, and the failure handler issues no further request.             *)
Failures ==
  {"fetch:fail", "refetch:fail", "vote:fail", "comment:fail",
   "delete:status", "delete:reject"}

FailureSurfaced ==
  [][/\ step' \in {"fetch:fail", "refetch:fail"} => error' # Null
     /\ step' = "vote:fail" => lastAlert' = VoteFailedAlert
     /\ step' = "comment:fail" => lastAlert' = CommentFailedAlert
     /\ step' \in {"delete:status", "delete:reject"} => lastAlert' = DeleteFailedAlert
     /\ step' \in Failures =>
          /\ calls' \subseteq calls
          /\ fetches' \subseteq fetches
          /\ deletes' \subseteq deletes
          /\ submit'.stage \in {"none", submit.stage}]_vars

(* C17 Fetch contract: every fetch of the post carries the userId exactly  *)
(* when a user is known at the time it is issued, and a change of user     *)
(* starts a new fetch.                                                     *)
FetchCarriesUser ==
  [][/\ \A f \in fetches' \ fetches : f.userId = user'
     /\ step' = "comment:ok" => submit'.userId = user'
     /\ user' # user => fetches' \ fetches # {}]_vars

(* C18 Votes are changed only by voting: the votes and user_vote of the    *)
(* post and of every remaining comment change only in a step of handleVote *)
(* (optimistic update, rollback) or when a fetched response replaces the   *)
(* post; deleting, the dialog and failed requests leave them as they are.  *)
VotesOnlyByVoting ==
  [][\A id \in ItemIds(post) \cap ItemIds(post') :
       SoloOf(post')[id] # SoloOf(post)[id] =>
         step' \in {"render", "vote:fail", "fetch:ok", "refetch:ok"}]_vars

VotesOnlyByVotingWitness ==
  /\ step = "delete:ok"
  /\ Len(post.comments) = 1
  /\ post.user_vote = "up"
  /\ post.comments[1].id = CommentIds[1]
  /\ post.comments[1].user_vote = "down"

----------------------------------------------------------------------------
(* ClientSchoolAdminView: the fetchSchool effect *)

(* the composite built from the four bodies *)
LoadedSchool ==
  [id |-> OrgId, courses |-> "courses", cohorts |-> "cohorts", members |-> "members"]

(* variant: the first answer settles the aggregate *)
PromiseAllFirstAnswer(rs) ==
  IF \E r \in Requests : rs[r] = "rejected" THEN "rejected"
  ELSE IF \E r \in Requests : rs[r] # "pending" THEN "fulfilled"
  ELSE "pending"

(* Promise.all: rejected as soon as one fetch rejects, fulfilled once every *)
(* fetch has been answered (a non-2xx answer fulfils its fetch)             *)
PromiseAll(rs) ==
  IF \E r \in Requests : rs[r] = "rejected" THEN "rejected"
  ELSE IF \A r \in Requests : rs[r] # "pending" THEN "fulfilled"
  ELSE "pending"

(* variant: only the organization's status is looked at *)
ResponsesOkOrganizationOnly(rs) == rs["organization"] = "ok"

(* the four  if (!xResponse.ok) throw  lines *)
ResponsesOk(rs) == \A r \in Requests : rs[r] = "ok"

(* one of the fetches is answered 2xx *)
RequestOk(r) ==
  /\ requests[r] = "pending"
  /\ requests' = [requests EXCEPT ![r] = "ok"]
  /\ UNCHANGED <<school, adminLoading, round>>

(* one of the fetches is answered with a non-2xx status *)
RequestStatus(r) ==
  /\ requests[r] = "pending"
  /\ requests' = [requests EXCEPT ![r] = "status"]
  /\ UNCHANGED <<school, adminLoading, round>>

(* one of the fetches rejects (network error) *)
RequestRejects(r) ==
  /\ requests[r] = "pending"
  /\ requests' = [requests EXCEPT ![r] = "rejected"]
  /\ UNCHANGED <<school, adminLoading, round>>

(* the await returns, every answer is ok and every body parses:            *)
(* setSchool(transformedSchool), then finally setLoading(false)            *)
AggregateLoads ==
  /\ round = "waiting"
  /\ PromiseAll(requests) = "fulfilled"
  /\ ResponsesOk(requests)
  /\ school' = LoadedSchool
  /\ adminLoading' = FALSE
  /\ round' = "loaded"
  /\ UNCHANGED requests

(* the await throws, a status check throws or a body does not parse:       *)
(* catch logs, finally setLoading(false)                                   *)
AggregateFails ==
  /\ round = "waiting"
  /\ PromiseAll(requests) # "pending"
  /\ \E parses \in BOOLEAN :
       ~(PromiseAll(requests) = "fulfilled" /\ ResponsesOk(requests) /\ parses)
  /\ adminLoading' = FALSE
  /\ round' = "failed"
  /\ UNCHANGED <<school, requests>>

(* the render guards *)
AdminView ==
  IF adminLoading THEN "spinner"
  ELSE IF school = NoSchool THEN "not found"
  ELSE "dashboard"

InitAdminView ==
  /\ InitVote
  /\ InitEdit
  /\ InitAdmin
  /\ InitMembersIdle
  /\ InitHubIdle
  /\ server = MkPost(Null, Null)

NextAdmin ==
  \/ (\E r \in Requests : RequestOk(r)) /\ UNCHANGED <<voteVars, editVars, memberVars, hubVars>>
  \/ (\E r \in Requests : RequestStatus(r)) /\ UNCHANGED <<voteVars, editVars, memberVars, hubVars>>
  \/ (\E r \in Requests : RequestRejects(r)) /\ UNCHANGED <<voteVars, editVars, memberVars, hubVars>>
  \/ AggregateLoads /\ UNCHANGED <<voteVars, editVars, memberVars, hubVars>>
  \/ AggregateFails /\ UNCHANGED <<voteVars, editVars, memberVars, hubVars>>

SpecAdmin == InitAdminView /\ [][NextAdmin]_vars

Failed(r) == requests[r] \in {"status", "rejected"}

(* C19 Admin aggregation is all-or-nothing: when one of the four fetches   *)
(* rejects or is answered non-2xx, the school is not set, the dashboard is *)
(* never shown, and once the effect has finished the view is in the failed *)
(* state (loading = false, no school).                                     *)
AllOrNothing ==
  (\E r \in Requests : Failed(r)) =>
    /\ school = NoSchool
    /\ AdminView # "dashboard"
    /\ round # "loaded"
    /\ round = "failed" => (~adminLoading /\ AdminView = "not found")

AllOrNothingWitness ==
  /\ round = "failed"
  /\ requests["cohorts"] = "status"
  /\ \A r \in Requests \ {"cohorts"} : requests[r] = "ok"
  /\ ~adminLoading /\ school = NoSchool

(* C20 as stated: loading is never false while one of the four requests is *)
(* still pending.                                                          *)
LoadingUntilAllAnswered ==
  ~adminLoading => \A r \in Requests : requests[r] # "pending"

(* C20 amended: loading becomes false only once all four requests have     *)
(* been answered or one of them has rejected; the school is set only after *)
(* all four were answered 2xx.                                             *)
LoadingUntilAllOrRejected ==
  /\ ~adminLoading =>
       \/ \A r \in Requests : requests[r] # "pending"
       \/ \E r \in Requests : requests[r] = "rejected"
  /\ school # NoSchool => \A r \in Requests : requests[r] = "ok"
  /\ adminLoading <=> round = "waiting"

LoadingUntilAllOrRejectedWitness ==
  /\ ~adminLoading
  /\ requests["members"] = "rejected"
  /\ \A r \in Requests \ {"members"} : requests[r] = "pending"

----------------------------------------------------------------------------
(* Stale responses, vote bookkeeping and the delete dialog *)

(* C25 Stale response wins: a change of user does not cancel the fetch in  *)
(* flight for the previous user, and whichever response arrives is written *)
(* to the state, also the one of a superseded fetch arriving last, so the  *)
(* view can hold the old key's data after every request has resolved.      *)
StaleResponseWins ==
  [][/\ step' = "auth" => (fetches \subseteq fetches' /\ fetches' # fetches)
     /\ step' = "fetch:ok" =>
          \A f \in fetches \ fetches' :
            /\ post' = ServerView(server, f.userId)
            /\ ~loading']_vars

StaleResponseWinsWitness ==
  /\ fetches = {} /\ calls = {} /\ submit = NoSubmit /\ deletes = {}
  /\ error = Null /\ clicks = 0
  /\ ~(NewCommentId \in CommentIdsOf(server))
  /\ authChanges = 1 /\ user = NoUser
  /\ post # NoPost /\ post.user_vote = "up"

(* votes minus the weight of the user's own vote *)
Balance(item) == item.votes - Weight(item.user_vote)

(* C26 Vote consistency: as long as the post is not re-fetched and no      *)
(* other invocation has written an item since the click of the one in      *)
(* flight (at most one request per item), every step keeps the item's      *)
(* votes minus the weight of its user_vote, whether the request succeeds   *)
(* or fails.                                                               *)
VoteConsistency ==
  [][(post # NoPost /\ post' # NoPost /\ post' # post /\ fetches' = fetches) =>
       LET before == SoloOf(post)
           after == SoloOf(post')
       IN \A id \in DOMAIN before \cap DOMAIN after :
            (\A c \in calls : c.itemId = id => c.clean) =>
              Balance(after[id]) = Balance(before[id])]_vars

VoteConsistencyWitness ==
  /\ clicks = 2 /\ calls = {} /\ authChanges = 0
  /\ resolved.status = "failed" /\ resolved.clean /\ resolved.n = 2
  /\ resolved.pre.user_vote # Null
  /\ resolved.opt # resolved.pre
  /\ Balance(resolved.after) = Balance(resolved.pre)

RECURSIVE SumVoteChange(_)
SumVoteChange(cs) ==
  IF cs = {} THEN 0
  ELSE LET c == CHOOSE x \in cs : TRUE
       IN c.voteChange + SumVoteChange(cs \ {c})

(* the item's votes without the deltas of the invocations still in flight *)
SettledVotes(items, cs, pend, id) ==
  items[id].votes - SumVoteChange({c \in cs : c.itemId = id /\ c.n # pend})

(* C27 Overlapping failures cancel: each rollback subtracts the voteChange *)
(* of its own invocation, so an item's votes without the deltas still in   *)
(* flight change only when a vote is accepted or the post is re-fetched;   *)
(* when all overlapping votes fail, in any order, the votes are those      *)
(* before the first click.                                                 *)
RollbacksCancel ==
  [][(/\ post # NoPost /\ post' # NoPost /\ fetches' = fetches
      /\ ~(\E c \in calls : resolved'.n = c.n /\ resolved'.status = "ok")) =>
       LET before == SoloOf(post)
           after == SoloOf(post')
       IN \A id \in DOMAIN before \cap DOMAIN after :
            SettledVotes(after, calls', pending', id)
              = SettledVotes(before, calls, pending, id)]_vars

RollbacksCancelWitness ==
  /\ clicks = 2 /\ calls = {} /\ authChanges = 0 /\ fetches = {}
  /\ resolved.status = "failed" /\ resolved.n = 2 /\ ~resolved.clean
  /\ resolved.after.votes
       = ItemOf(MkPost(Null, Null), resolved.itemId, resolved.isComment).votes
  /\ resolved.after # resolved.pre

(* C28 Deletion needs confirmation: a DELETE is issued only by confirming  *)
(* the dialog that a delete button opened, for the item of the dialog;     *)
(* cancelling resets itemToDelete without a request; when handleDelete     *)
(* finishes itemToDelete is null whatever the outcome.                     *)
DeleteNeedsConfirmation ==
  [][/\ ~(deletes' \subseteq deletes) =>
          /\ step' = "delete:confirm"
          /\ itemToDelete # NoItem
          /\ deletes' = deletes \cup {itemToDelete}
     /\ (itemToDelete' # NoItem /\ itemToDelete' # itemToDelete) =>
          step' = "delete:open"
     /\ step' = "delete:cancel" =>
          (itemToDelete' = NoItem /\ deletes' = deletes /\ server' = server)
     /\ step' \in {"delete:ok", "delete:status", "delete:reject"} =>
          (itemToDelete' = NoItem /\ deletes' \subseteq deletes)]_vars

DeleteNeedsConfirmationWitness ==
  /\ step = "delete:reject"
  /\ itemToDelete = NoItem /\ deletes = {}
  /\ ~navigated /\ lastAlert = DeleteFailedAlert

----------------------------------------------------------------------------
(* HubDashboard.handleVote and EnhancedPostCard.handleVote *)

MaxHubTaps == 2

HubPostIds == <<21, 22>>

HubPost(id, v, uv) == [id |-> id, votes |-> v, user_vote |-> uv]

(* the post lists the dashboard can have loaded *)
HubLoads ==
  {<<HubPost(HubPostIds[1], 5, uv), HubPost(HubPostIds[2], 0, Null)>> : uv \in UserVotes}

(* EnhancedPostCard: post.user_vote === voteType ? null : voteType *)
CardVoteType(userVote, tap) == IF userVote = tap THEN Null ELSE tap

(* variant: the previous vote is not taken back *)
HubNewVotesNoUndo(votes, oldVote, voteType) ==
  LET c == IF voteType = "up" THEN votes + 1 ELSE votes
  IN IF voteType = "down" THEN c - 1 ELSE c

(* the four adjustments of newVotes, in the order of the code *)
HubNewVotes(votes, oldVote, voteType) ==
  LET a == IF oldVote = "up" THEN votes - 1 ELSE votes
      b == IF oldVote = "down" THEN a + 1 ELSE a
      c == IF voteType = "up" THEN b + 1 ELSE b
  IN IF voteType = "down" THEN c - 1 ELSE c

(* posts.map(post => post.id === postId ? {...post, user_vote, votes} : post) *)
HubMapPosts(posts, postId, voteType) ==
  [i \in DOMAIN posts |->
     IF posts[i].id = postId
       THEN [posts[i] EXCEPT !.votes = HubNewVotes(posts[i].votes, posts[i].user_vote, voteType),
                             !.user_vote = voteType]
       ELSE posts[i]]

HubItem(posts, postId) ==
  LET i == CHOOSE j \in DOMAIN posts : posts[j].id = postId
  IN [votes |-> posts[i].votes, user_vote |-> posts[i].user_vote]

(* a tap on an arrow of a card: the card's guard and toggle, then the      *)
(* dashboard's handleVote up to its await; posts is the list of the        *)
(* render the handler was created in                                       *)
HubTap(postId, tap) ==
  /\ hubTaps < MaxHubTaps
  /\ hubTaps' = hubTaps + 1
  /\ \E i \in DOMAIN hubPosts : hubPosts[i].id = postId
  /\ IF hubUser = NoUser
       THEN UNCHANGED hubCalls
       ELSE hubCalls' = hubCalls \cup
              {[n |-> hubTaps + 1, postId |-> postId, tap |-> tap,
                voteType |-> CardVoteType(HubItem(hubPosts, postId).user_vote, tap),
                posts |-> hubPosts]}
  /\ UNCHANGED <<hubUser, hubPosts, hubResolved>>

(* the vote request is answered 2xx: setPosts(posts.map(...)) *)
HubVoteOk(c) ==
  /\ c \in hubCalls
  /\ hubCalls' = hubCalls \ {c}
  /\ hubPosts' = HubMapPosts(c.posts, c.postId, c.voteType)
  /\ hubResolved' = [n |-> c.n, status |-> "ok", tap |-> c.tap,
                     prior |-> HubItem(c.posts, c.postId),
                     after |-> HubItem(hubPosts', c.postId)]
  /\ UNCHANGED <<hubUser, hubTaps>>

(* the vote request is answered non-2xx (status) or rejects: nothing is set *)
HubVoteFail(c, how) ==
  /\ c \in hubCalls
  /\ hubCalls' = hubCalls \ {c}
  /\ hubResolved' = [n |-> c.n, status |-> how, tap |-> c.tap,
                     prior |-> HubItem(c.posts, c.postId),
                     after |-> HubItem(hubPosts, c.postId)]
  /\ UNCHANGED <<hubUser, hubPosts, hubTaps>>

InitHub ==
  /\ InitVote
  /\ user = NoUser
  /\ InitEdit
  /\ InitAdmin
  /\ InitMembersIdle
  /\ server = MkPost(Null, Null)
  /\ hubUser \in {NoUser, UserId}
  /\ hubPosts \in HubLoads
  /\ hubCalls = {}
  /\ hubTaps = 0
  /\ hubResolved = NoHubCall

HubRest == <<voteVars, editVars, adminVars, memberVars>>

NextHub ==
  \/ /\ \E i \in DOMAIN HubPostIds, tap \in VoteTypes : HubTap(HubPostIds[i], tap)
     /\ UNCHANGED HubRest
  \/ (\E c \in hubCalls : HubVoteOk(c)) /\ UNCHANGED HubRest
  \/ (\E c \in hubCalls : HubVoteFail(c, "status")) /\ UNCHANGED HubRest
  \/ (\E c \in hubCalls : HubVoteFail(c, "rejected")) /\ UNCHANGED HubRest

SpecHub == InitHub /\ [][NextHub]_vars

(* C30 The hub dashboard agrees with the post page: after a 2xx response   *)
(* the voted post is what the post page's optimistic update makes of the   *)
(* post the handler read, for every prior (votes, user_vote) and arrow,    *)
(* the other posts are untouched, and after a non-2xx response or a        *)
(* rejection the post list is unchanged.                                   *)
HubAgreesWithPage ==
  [][\A c \in hubCalls :
       hubCalls' = hubCalls \ {c} =>
         /\ hubResolved'.status = "ok" =>
              /\ HubItem(hubPosts', c.postId)
                   = updateItem(HubItem(c.posts, c.postId), c.tap)
              /\ \A i \in DOMAIN hubPosts' :
                   hubPosts'[i].id # c.postId => hubPosts'[i] = c.posts[i]
              /\ DOMAIN hubPosts' = DOMAIN c.posts
         /\ hubResolved'.status # "ok" => hubPosts' = hubPosts]_vars

HubAgreesWithPageWitness ==
  /\ hubResolved.status = "ok"
  /\ hubResolved.prior = [votes |-> 5, user_vote |-> "up"]
  /\ hubResolved.tap = "down"
  /\ hubResolved.after = [votes |-> 3, user_vote |-> "down"]
  /\ HubItem(hubPosts, HubPostIds[1]) = hubResolved.after

----------------------------------------------------------------------------
(* ClientSchoolAdminView: members, invitations, cohort and course refresh *)

MaxAdminSteps == 3

Member(id, role) == [id |-> id, role |-> role]

(* the members of the organization: its owner, the admin who is logged in  *)
(* and two more admins                                                     *)
InitialMembers ==
  <<Member(1, "owner"), Member(2, "admin"), Member(3, "admin"), Member(4, "admin")>>

InvitedMember == Member(5, "admin")

(* member.id.toString() *)
ToStr(n) == <<"1", "2", "3", "4", "5">>[n]

(* session.user.id of the admin who is logged in *)
SelfSession == "2"

InitialServer ==
  [members |-> InitialMembers, cohorts |-> "cohorts", courses |-> "courses"]

(* the composite built by the fetchSchool effect *)
MemberSchool(srv) ==
  [id |-> OrgId, name |-> "school", url |-> "url",
   courses |-> srv.courses, cohorts |-> srv.cohorts, members |-> srv.members]

(* session?.user?.id === member.id.toString() *)
isCurrentUser(member) == sessionUser = ToStr(member.id)

(* variant: the owner is not excluded *)
SelectableNotOwnerTestMissing(member) == ~isCurrentUser(member)

(* member.role !== 'owner' && !isCurrentUser(member) *)
Selectable(member) == member.role # "owner" /\ ~isCurrentUser(member)

selectableMembers ==
  IF school = NoSchool THEN <<>>
  ELSE SelectSeq(school.members, LAMBDA m : Selectable(m))

areAllMembersSelected ==
  /\ school # NoSchool
  /\ Len(selectableMembers) > 0
  /\ Len(selectedMembers) = Len(selectableMembers)

hasSelectableMembers ==
  /\ school # NoSchool
  /\ \E i \in DOMAIN school.members : Selectable(school.members[i])

MembersShown == school # NoSchool /\ ~adminLoading

RowsOf(sch) == {sch.members[i] : i \in DOMAIN sch.members}

IdsOf(ms) == [i \in DOMAIN ms |-> ms[i].id]

(* memberToDelete ? [memberToDelete] : selectedMembers *)
membersToDelete ==
  IF memberToDelete # NoMember THEN <<memberToDelete>> ELSE selectedMembers

(* variant: the members are filtered locally after the DELETE *)
AfterMemberDeleteFilter(prev, ids) ==
  IF prev = NoSchool THEN NoSchool
  ELSE [prev EXCEPT !.members =
          SelectSeq(prev.members,
                    LAMBDA m : ~(\E i \in DOMAIN ids : ids[i] = m.id))]

(* what confirmDeleteMember does to school when the DELETE is answered     *)
(* 2xx: nothing, the members are re-fetched                                *)
AfterMemberDelete(prev, ids) == prev

(* setSchool(prev => prev ? { ...prev, members: membersData } : null) *)
MergeMembers(prev, data) ==
  IF prev = NoSchool THEN NoSchool ELSE [prev EXCEPT !.members = data]

(* variant: the composite is rebuilt with the cohorts alone *)
MergeCohortsAlone(prev, data) ==
  IF prev = NoSchool THEN NoSchool
  ELSE [prev EXCEPT !.cohorts = data, !.members = <<>>]

(* setSchool(prev => prev ? { ...prev, cohorts: cohortsData } : null) *)
MergeCohorts(prev, data) ==
  IF prev = NoSchool THEN NoSchool ELSE [prev EXCEPT !.cohorts = data]

(* setSchool(prev => prev ? { ...prev, courses: coursesData.map(...) } : null) *)
MergeCourses(prev, data) ==
  IF prev = NoSchool THEN NoSchool ELSE [prev EXCEPT !.courses = data]

(* the server's answers: the members DELETE removes the given ids, an      *)
(* invitation adds a member, a deleted cohort or course is gone            *)
ServerRemoveMembers(srv, ids) ==
  [srv EXCEPT !.members =
     SelectSeq(srv.members, LAMBDA m : ~(\E i \in DOMAIN ids : ids[i] = m.id))]

ServerInvite(srv) ==
  IF \E i \in DOMAIN srv.members : srv.members[i].id = InvitedMember.id
    THEN srv
    ELSE [srv EXCEPT !.members = Append(srv.members, InvitedMember)]

ServerDeleteCohort(srv) == [srv EXCEPT !.cohorts = "cohorts without one"]

ServerDeleteCourse(srv) == [srv EXCEPT !.courses = "courses without one"]

AdminCall(kind, ids) == [n |-> adminSteps + 1, kind |-> kind, ids |-> ids]

Finish(c) == adminCalls \ {c}

Continue(c, kind) == (adminCalls \ {c}) \cup {[c EXCEPT !.kind = kind]}

(* one click of the admin (bounded), or one answer of a request *)
AdminUser(label) ==
  /\ adminSteps < MaxAdminSteps /\ adminSteps' = adminSteps + 1 /\ adminStep' = label
  /\ UNCHANGED <<sessionUser, adminLoading, requests, round>>

AdminAnswer(label) ==
  /\ adminSteps' = adminSteps /\ adminStep' = label
  /\ UNCHANGED <<sessionUser, adminLoading, requests, round>>

(* the checkbox of a member row: handleMemberSelection *)
ToggleMember(member) ==
  /\ MembersShown
  /\ member \in RowsOf(school) /\ Selectable(member)
  /\ ~isCurrentUser(member)
  /\ selectedMembers' =
       IF \E i \in DOMAIN selectedMembers : selectedMembers[i].id = member.id
         THEN SelectSeq(selectedMembers, LAMBDA m : m.id # member.id)
         ELSE Append(selectedMembers, member)
  /\ AdminUser("select:toggle")
  /\ UNCHANGED <<school, adminServer, memberToDelete, isDeleteConfirmOpen,
                 isInviteDialogOpen, toast, adminCalls>>

(* the checkbox of the table head: handleSelectAllMembers; the event       *)
(* carries the opposite of what the checkbox showed                        *)
SelectAllMembers ==
  /\ MembersShown
  /\ hasSelectableMembers
  /\ selectedMembers' = IF ~areAllMembersSelected THEN selectableMembers ELSE <<>>
  /\ AdminUser("select:all")
  /\ UNCHANGED <<school, adminServer, memberToDelete, isDeleteConfirmOpen,
                 isInviteDialogOpen, toast, adminCalls>>

(* the delete button of a member row: handleDeleteMember *)
OpenDeleteMember(member) ==
  /\ MembersShown
  /\ member \in RowsOf(school) /\ Selectable(member)
  /\ ~isCurrentUser(member)
  /\ memberToDelete' = member
  /\ selectedMembers' = <<>>
  /\ isDeleteConfirmOpen' = TRUE
  /\ AdminUser("member:delete")
  /\ UNCHANGED <<school, adminServer, isInviteDialogOpen, toast, adminCalls>>

(* the Remove (n) button: handleDeleteSelectedMembers *)
OpenDeleteSelected ==
  /\ MembersShown
  /\ Len(selectedMembers) > 0
  /\ memberToDelete' = NoMember
  /\ isDeleteConfirmOpen' = TRUE
  /\ AdminUser("member:bulk")
  /\ UNCHANGED <<school, adminServer, selectedMembers, isInviteDialogOpen, toast,
                 adminCalls>>

(* onCancel of the dialog *)
CancelDeleteMember ==
  /\ MembersShown
  /\ isDeleteConfirmOpen
  /\ isDeleteConfirmOpen' = FALSE
  /\ AdminUser("member:cancel")
  /\ UNCHANGED <<school, adminServer, selectedMembers, memberToDelete,
                 isInviteDialogOpen, toast, adminCalls>>

(* onConfirm of the dialog: confirmDeleteMember up to its first await *)
ConfirmDeleteMember ==
  /\ MembersShown
  /\ isDeleteConfirmOpen
  /\ Len(membersToDelete) > 0
  /\ adminCalls' = adminCalls \cup {AdminCall("delete", IdsOf(membersToDelete))}
  /\ AdminUser("member:confirm")
  /\ UNCHANGED <<school, adminServer, selectedMembers, memberToDelete,
                 isDeleteConfirmOpen, isInviteDialogOpen, toast>>

(* the DELETE is answered 2xx: the members are fetched again *)
MemberDeleteOk(c) ==
  /\ c \in adminCalls /\ c.kind = "delete"
  /\ adminServer' = ServerRemoveMembers(adminServer, c.ids)
  /\ school' = AfterMemberDelete(school, c.ids)
  /\ adminCalls' = Continue(c, "delete:refetch")
  /\ AdminAnswer("member:delete:ok")
  /\ UNCHANGED <<selectedMembers, memberToDelete, isDeleteConfirmOpen,
                 isInviteDialogOpen, toast>>

(* the DELETE or the re-fetch fails: catch, finally *)
MemberDeleteFail(c) ==
  /\ c \in adminCalls /\ c.kind \in {"delete", "delete:refetch"}
  /\ adminCalls' = Finish(c)
  /\ isDeleteConfirmOpen' = FALSE
  /\ memberToDelete' = NoMember
  /\ selectedMembers' = <<>>
  /\ AdminAnswer(IF c.kind = "delete" THEN "member:delete:fail"
                                      ELSE "member:refetch:fail")
  /\ UNCHANGED <<school, adminServer, isInviteDialogOpen, toast>>

(* the re-fetch is answered 2xx: setSchool, toast, finally *)
MemberRefetchOk(c) ==
  /\ c \in adminCalls /\ c.kind = "delete:refetch"
  /\ school' = MergeMembers(school, adminServer.members)
  /\ toast' = "removed"
  /\ adminCalls' = Finish(c)
  /\ isDeleteConfirmOpen' = FALSE
  /\ memberToDelete' = NoMember
  /\ selectedMembers' = <<>>
  /\ AdminAnswer("member:refetch:ok")
  /\ UNCHANGED <<adminServer, isInviteDialogOpen>>

(* the Invite members button, and onClose of the invite dialog *)
OpenInvite ==
  /\ MembersShown
  /\ isInviteDialogOpen' = TRUE
  /\ AdminUser("invite:open")
  /\ UNCHANGED <<school, adminServer, selectedMembers, memberToDelete,
                 isDeleteConfirmOpen, toast, adminCalls>>

CloseInvite ==
  /\ MembersShown
  /\ isInviteDialogOpen
  /\ isInviteDialogOpen' = FALSE
  /\ AdminUser("invite:close")
  /\ UNCHANGED <<school, adminServer, selectedMembers, memberToDelete,
                 isDeleteConfirmOpen, toast, adminCalls>>

(* onInvite of the dialog: handleInviteMembers up to its first await *)
SubmitInvite ==
  /\ MembersShown
  /\ isInviteDialogOpen
  /\ adminCalls' = adminCalls \cup {AdminCall("invite", <<>>)}
  /\ AdminUser("invite:submit")
  /\ UNCHANGED <<school, adminServer, selectedMembers, memberToDelete,
                 isDeleteConfirmOpen, isInviteDialogOpen, toast>>

(* the POST is answered 2xx: the members are fetched again *)
InviteOk(c) ==
  /\ c \in adminCalls /\ c.kind = "invite"
  /\ adminServer' = ServerInvite(adminServer)
  /\ adminCalls' = Continue(c, "invite:refetch")
  /\ AdminAnswer("invite:ok")
  /\ UNCHANGED <<school, selectedMembers, memberToDelete, isDeleteConfirmOpen,
                 isInviteDialogOpen, toast>>

(* the POST or the re-fetch fails: catch *)
InviteFail(c) ==
  /\ c \in adminCalls /\ c.kind \in {"invite", "invite:refetch"}
  /\ adminCalls' = Finish(c)
  /\ AdminAnswer(IF c.kind = "invite" THEN "invite:fail" ELSE "invite:refetch:fail")
  /\ UNCHANGED <<school, adminServer, selectedMembers, memberToDelete,
                 isDeleteConfirmOpen, isInviteDialogOpen, toast>>

(* the re-fetch is answered 2xx: setSchool, the dialog closes, toast *)
InviteRefetchOk(c) ==
  /\ c \in adminCalls /\ c.kind = "invite:refetch"
  /\ school' = MergeMembers(school, adminServer.members)
  /\ isInviteDialogOpen' = FALSE
  /\ toast' = "invited"
  /\ adminCalls' = Finish(c)
  /\ AdminAnswer("invite:refetch:ok")
  /\ UNCHANGED <<adminServer, selectedMembers, memberToDelete, isDeleteConfirmOpen>>

(* a cohort card has deleted its cohort and calls onDelete:                *)
(* handleCohortDelete up to the await in refreshCohorts                    *)
CohortDeleted ==
  /\ MembersShown
  /\ adminServer' = ServerDeleteCohort(adminServer)
  /\ adminCalls' = adminCalls \cup {AdminCall("cohorts", <<>>)}
  /\ AdminUser("cohorts:refresh")
  /\ UNCHANGED <<school, selectedMembers, memberToDelete, isDeleteConfirmOpen,
                 isInviteDialogOpen, toast>>

(* refreshCohorts is answered; handleCohortDelete shows its toast after    *)
(* either outcome                                                          *)
CohortsAnswered(c, ok) ==
  /\ c \in adminCalls /\ c.kind = "cohorts"
  /\ school' = IF ok THEN MergeCohorts(school, adminServer.cohorts) ELSE school
  /\ toast' = "cohort removed"
  /\ adminCalls' = Finish(c)
  /\ AdminAnswer(IF ok THEN "cohorts:ok" ELSE "cohorts:fail")
  /\ UNCHANGED <<adminServer, selectedMembers, memberToDelete, isDeleteConfirmOpen,
                 isInviteDialogOpen>>

(* the same for a course card: handleCourseDelete, refreshCourses *)
CourseDeleted ==
  /\ MembersShown
  /\ adminServer' = ServerDeleteCourse(adminServer)
  /\ adminCalls' = adminCalls \cup {AdminCall("courses", <<>>)}
  /\ AdminUser("courses:refresh")
  /\ UNCHANGED <<school, selectedMembers, memberToDelete, isDeleteConfirmOpen,
                 isInviteDialogOpen, toast>>

CoursesAnswered(c, ok) ==
  /\ c \in adminCalls /\ c.kind = "courses"
  /\ school' = IF ok THEN MergeCourses(school, adminServer.courses) ELSE school
  /\ toast' = "course removed"
  /\ adminCalls' = Finish(c)
  /\ AdminAnswer(IF ok THEN "courses:ok" ELSE "courses:fail")
  /\ UNCHANGED <<adminServer, selectedMembers, memberToDelete, isDeleteConfirmOpen,
                 isInviteDialogOpen>>

(* the toast's timer, or its close button *)
ToastHides ==
  /\ toast # "none"
  /\ toast' = "none"
  /\ AdminAnswer("toast:hide")
  /\ UNCHANGED <<school, adminServer, selectedMembers, memberToDelete,
                 isDeleteConfirmOpen, isInviteDialogOpen, adminCalls>>

(* useSession: the session of the signed-in admin arrives; no handler of   *)
(* the view runs, the rows are rendered again with the new session         *)
SessionLoads ==
  /\ sessionUser = NoSession
  /\ sessionUser' = SelfSession
  /\ adminStep' = "session:loads"
  /\ UNCHANGED <<school, adminLoading, requests, round, adminServer,
                 selectedMembers, memberToDelete, isDeleteConfirmOpen,
                 isInviteDialogOpen, toast, adminCalls, adminSteps>>

(* the view with the school loaded, the admin's session known or not yet *)
InitMembers ==
  /\ InitVote /\ user = NoUser
  /\ InitEdit
  /\ InitHubIdle
  /\ server = MkPost(Null, Null)
  /\ sessionUser \in {SelfSession, NoSession}
  /\ adminServer = InitialServer
  /\ school = MemberSchool(InitialServer)
  /\ adminLoading = FALSE
  /\ requests = [r \in Requests |-> "ok"]
  /\ round = "loaded"
  /\ selectedMembers = <<>>
  /\ memberToDelete = NoMember
  /\ isDeleteConfirmOpen = FALSE
  /\ isInviteDialogOpen = FALSE
  /\ toast = "none"
  /\ adminCalls = {}
  /\ adminSteps = 0
  /\ adminStep = "mount"

MembersRest == <<voteVars, editVars, hubVars>>

NextMembers ==
  \/ (\E m \in RowsOf(school) : ToggleMember(m)) /\ UNCHANGED MembersRest
  \/ SelectAllMembers /\ UNCHANGED MembersRest
  \/ (\E m \in RowsOf(school) : OpenDeleteMember(m)) /\ UNCHANGED MembersRest
  \/ OpenDeleteSelected /\ UNCHANGED MembersRest
  \/ CancelDeleteMember /\ UNCHANGED MembersRest
  \/ ConfirmDeleteMember /\ UNCHANGED MembersRest
  \/ (\E c \in adminCalls : MemberDeleteOk(c)) /\ UNCHANGED MembersRest
  \/ (\E c \in adminCalls : MemberDeleteFail(c)) /\ UNCHANGED MembersRest
  \/ (\E c \in adminCalls : MemberRefetchOk(c)) /\ UNCHANGED MembersRest
  \/ OpenInvite /\ UNCHANGED MembersRest
  \/ CloseInvite /\ UNCHANGED MembersRest
  \/ SubmitInvite /\ UNCHANGED MembersRest
  \/ (\E c \in adminCalls : InviteOk(c)) /\ UNCHANGED MembersRest
  \/ (\E c \in adminCalls : InviteFail(c)) /\ UNCHANGED MembersRest
  \/ (\E c \in adminCalls : InviteRefetchOk(c)) /\ UNCHANGED MembersRest
  \/ CohortDeleted /\ UNCHANGED MembersRest
  \/ (\E c \in adminCalls, ok \in BOOLEAN : CohortsAnswered(c, ok)) /\ UNCHANGED MembersRest
  \/ CourseDeleted /\ UNCHANGED MembersRest
  \/ (\E c \in adminCalls, ok \in BOOLEAN : CoursesAnswered(c, ok)) /\ UNCHANGED MembersRest
  \/ ToastHides /\ UNCHANGED MembersRest
  \/ SessionLoads /\ UNCHANGED MembersRest

SpecMembers == InitMembers /\ [][NextMembers]_vars

----------------------------------------------------------------------------
(* Properties of the members tab *)

SetOf(seq) == {seq[i] : i \in DOMAIN seq}

NewCalls(kind) == {c \in adminCalls' \ adminCalls : c.kind = kind}

SelectionExcludesOwnerAndSelf ==
  \A i \in DOMAIN selectedMembers :
    /\ selectedMembers[i].role # "owner"
    /\ ToStr(selectedMembers[i].id) # sessionUser

(* C23 Member deletion: a members DELETE is issued only by confirming the  *)
(* dialog that the row delete button or the bulk remove button opened,     *)
(* cancelling issues none; after a 2xx DELETE school.members is not        *)
(* filtered but replaced by the answer of a full re-fetch.                 *)
MemberDeleteConfirmed ==
  [][/\ NewCalls("delete") # {} =>
          (adminStep' = "member:confirm" /\ isDeleteConfirmOpen)
     /\ (isDeleteConfirmOpen' /\ ~isDeleteConfirmOpen) =>
          adminStep' \in {"member:delete", "member:bulk"}
     /\ adminStep' = "member:cancel" =>
          (adminCalls' = adminCalls /\ ~isDeleteConfirmOpen'
           /\ adminServer' = adminServer)
     /\ adminStep' = "member:delete:ok" =>
          (school' = school /\ NewCalls("delete:refetch") # {})
     /\ adminStep' = "member:refetch:ok" =>
          school'.members = adminServer.members
     /\ school'.members # school.members =>
          adminStep' \in {"member:refetch:ok", "invite:refetch:ok"}]_vars

MemberDeleteConfirmedWitness ==
  /\ adminStep = "member:refetch:ok"
  /\ toast = "removed"
  /\ school.members = adminServer.members
  /\ Len(school.members) = 2
  /\ ~isDeleteConfirmOpen

(* C24 Partial refresh frame: an invitation, a removal, a cohort refresh   *)
(* or a course refresh replaces only its own sub-collection of the school; *)
(* id, name, url and the other sub-collections stay, and a failed refresh  *)
(* changes nothing.                                                        *)
PartialRefreshFrame ==
  [][/\ school'.id = school.id /\ school'.name = school.name
     /\ school'.url = school.url
     /\ school'.members # school.members =>
          adminStep' \in {"member:refetch:ok", "invite:refetch:ok"}
     /\ school'.cohorts # school.cohorts => adminStep' = "cohorts:ok"
     /\ school'.courses # school.courses => adminStep' = "courses:ok"
     /\ adminStep' = "cohorts:ok" => school'.cohorts = adminServer.cohorts
     /\ adminStep' = "courses:ok" => school'.courses = adminServer.courses
     /\ adminStep' = "invite:refetch:ok" => school'.members = adminServer.members
     /\ adminStep' \in {"member:delete:fail", "member:refetch:fail", "invite:fail",
                        "invite:refetch:fail", "cohorts:fail", "courses:fail"} =>
          school' = school]_vars

PartialRefreshFrameWitness ==
  /\ adminStep = "cohorts:ok"
  /\ school.cohorts = adminServer.cohorts
  /\ school.cohorts # InitialServer.cohorts
  /\ school.courses = InitialServer.courses
  /\ school.members # InitialMembers
  /\ InvitedMember \in RowsOf(school)

(* C29 No members DELETE carries the owner's id or the authenticated       *)
(* user's: the user_ids are the member of the row delete button if one is  *)
(* set, otherwise the selection.                                           *)
DeleteSparesOwnerAndSelf ==
  [][\A c \in NewCalls("delete") :
       /\ c.ids = IF memberToDelete # NoMember
                    THEN <<memberToDelete.id>>
                    ELSE IdsOf(selectedMembers)
       /\ \A i \in DOMAIN c.ids :
            /\ ToStr(c.ids[i]) # sessionUser
            /\ \A m \in RowsOf(school) : m.role = "owner" => m.id # c.ids[i]]_vars

====
